---- MODULE Spec2Model ----
(***************************************************************************)
(* The matching workflow of frontend/app/page.tsx: the form state, the     *)
(* submission pipeline (lead capture -> startup record -> matching query), *)
(* the pagination controls and the page-change handler.                    *)
(*                                                                         *)
(* One step of the model is one browser event handled to completion and    *)
(* re-rendered: a user event (input, toggle, click), or the arrival of a   *)
(* network response together with the continuation of the async handler   *)
(* that awaited it (up to its next await or its end).                      *)
(***************************************************************************)
EXTENDS Integers, Sequences, FiniteSets, TLC

VARIABLES
    formData,       \* useState<StartupForm>
    isLoading,      \* useState(false): the busy flag
    matches,        \* useState<VC[]>([]): investors shown (by id)
    totalMatches,   \* useState(0)
    showResults,    \* useState(false): FALSE = "form" view, TRUE = "results" view
    error,          \* useState("")
    currentPage,    \* useState(1)
    totalPages,     \* useState(1)
    tasks,          \* running invocations of handleSubmit / handlePageChange
    resp,           \* the response most recently delivered to a handler
    resultsQuery    \* body of the matching request whose response is displayed

vars == <<formData, isLoading, matches, totalMatches, showResults, error,
          currentPage, totalPages, tasks, resp, resultsQuery>>

----------------------------------------------------------------------------
(* Bounds of the model *)

\* page and total_pages of a matching response range over 0..MaxPage
MaxPage == 2

\* handler invocations that may run at once before the model stops adding more
MaxTasks == 2
\* largest total_pages answered in the behaviours that exercise the page buttons
MaxTotalPages == 10
\* most investor cards in one answer in the behaviours that exercise the cards
MaxCards == 2

----------------------------------------------------------------------------
(* Program constants *)

perPage == 21

availableIndustries ==
    << "AI/ML", "FinTech", "SaaS", "Healthcare", "E-Commerce", "Cybersecurity",
       "Big Data & Analytics", "Cloud", "Mobile", "Enterprise", "Consumer",
       "Developer Tools" >>

knownStages == << "Pre-Seed", "Seed", "Series A", "Series B", "Series C", "Series D" >>

FormspreeUrl == "https://formspree.io/f/xblyzlzv"
StartupUrl == "http://localhost:8000/api/startups/submit"
MatchingUrl == "http://localhost:8000/api/matching/find"

ErrLead == "Failed to submit form data"
ErrStartup == "Failed to submit startup information"
ErrMatching == "Failed to find matching investors"
ErrPage == "Failed to find matching investors"
ErrFallback == "An error occurred"

----------------------------------------------------------------------------
(* Inputs the environment supplies *)

\* values typed into / selected in the form fields
FieldValues ==
    [ email        |-> {"", "john@gmail.com"},
      startupName  |-> {"", "Acme"},
      website      |-> {"", "https://acme.io"},
      fundingStage |-> {"seed"} ]

InputFields == {"email", "startupName", "website", "fundingStage"}

\* labels handed to handleIndustryChange
ToggleLabels == {"FinTech", "fintech", "Blockchain"}

\* a wider choice of labels, for the behaviours that only edit the form
ToggleInputs ==
    {"FinTech", "fintech", "FINTECH", "AI/ML", "ai/ml", "SaaS", "SAAS",
     "Blockchain", "Fin Tech"}

\* match lists and counts a matching response may carry
MatchLists == { <<1>>, <<2, 3>> }
Counts == {3, 40}
Pages == 0..MaxPage

\* the investors (VC records) the matching service knows, by id; a field that
\* is absent from the JSON is "undefined"
Investors ==
    << 
       [id |-> 1, fund_focus_sectors |-> "AI/ML and SAAS focus", fund_stage |-> "Seed, Series A, Series C"],
       [id |-> 2, fund_focus_sectors |-> "FinTech, Healthcare", fund_stage |-> "Series C, Series A, Seed"],
       [id |-> 3, fund_focus_sectors |-> "undefined", fund_stage |-> "undefined"],
       [id |-> 4, fund_focus_sectors |-> "fintech", fund_stage |-> "Pre-Seed"],
       [id |-> 5, fund_focus_sectors |-> "Enterprise SaaS, Cloud", fund_stage |-> "seed"],
       [id |-> 6, fund_focus_sectors |-> "mobile e-commerce", fund_stage |-> "Series A/B"],
       [id |-> 7, fund_focus_sectors |-> "Big Data", fund_stage |-> "Series D, Series B"],
       [id |-> 8, fund_focus_sectors |-> "Consumer, Developer Tools, Cybersecurity", fund_stage |-> "Growth"],
       [id |-> 9, fund_focus_sectors |-> "Crypto", fund_stage |-> ""],
       [id |-> 10, fund_focus_sectors |-> "", fund_stage |-> "Pre-Seed, Seed"],
       [id |-> 11, fund_focus_sectors |-> "BIG DATA & ANALYTICS", fund_stage |-> "SeriesA"],
       [id |-> 12, fund_focus_sectors |-> "Clou", fund_stage |-> "Series"] >>

\* what a rejected fetch (or a body that does not parse) throws
Thrown == { [isError |-> TRUE, message |-> "Failed to fetch"] }

\* A JavaScript string is written as a TLA+ string; Chars gives the
\* characters of every string the model uses, so that toLowerCase and
\* includes are computed character by character.
Chars ==
         "AI/ML" :> <<"A", "I", "/", "M", "L">>
      @@ "FinTech" :> <<"F", "i", "n", "T", "e", "c", "h">>
      @@ "SaaS" :> <<"S", "a", "a", "S">>
      @@ "Healthcare" :> <<"H", "e", "a", "l", "t", "h", "c", "a", "r", "e">>
      @@ "E-Commerce" :> <<"E", "-", "C", "o", "m", "m", "e", "r", "c", "e">>
      @@ "Cybersecurity" :> <<"C", "y", "b", "e", "r", "s", "e", "c", "u", "r", "i", "t", "y">>
      @@ "Big Data & Analytics" :> <<"B", "i", "g", " ", "D", "a", "t", "a", " ", "&", " ", "A", "n", "a", "l", "y", "t", "i", "c", "s">>
      @@ "Cloud" :> <<"C", "l", "o", "u", "d">>
      @@ "Mobile" :> <<"M", "o", "b", "i", "l", "e">>
      @@ "Enterprise" :> <<"E", "n", "t", "e", "r", "p", "r", "i", "s", "e">>
      @@ "Consumer" :> <<"C", "o", "n", "s", "u", "m", "e", "r">>
      @@ "Developer Tools" :> <<"D", "e", "v", "e", "l", "o", "p", "e", "r", " ", "T", "o", "o", "l", "s">>
      @@ "ai/ml" :> <<"a", "i", "/", "m", "l">>
      @@ "fintech" :> <<"f", "i", "n", "t", "e", "c", "h">>
      @@ "saas" :> <<"s", "a", "a", "s">>
      @@ "healthcare" :> <<"h", "e", "a", "l", "t", "h", "c", "a", "r", "e">>
      @@ "e-commerce" :> <<"e", "-", "c", "o", "m", "m", "e", "r", "c", "e">>
      @@ "cybersecurity" :> <<"c", "y", "b", "e", "r", "s", "e", "c", "u", "r", "i", "t", "y">>
      @@ "big data & analytics" :> <<"b", "i", "g", " ", "d", "a", "t", "a", " ", "&", " ", "a", "n", "a", "l", "y", "t", "i", "c", "s">>
      @@ "cloud" :> <<"c", "l", "o", "u", "d">>
      @@ "mobile" :> <<"m", "o", "b", "i", "l", "e">>
      @@ "enterprise" :> <<"e", "n", "t", "e", "r", "p", "r", "i", "s", "e">>
      @@ "consumer" :> <<"c", "o", "n", "s", "u", "m", "e", "r">>
      @@ "developer tools" :> <<"d", "e", "v", "e", "l", "o", "p", "e", "r", " ", "t", "o", "o", "l", "s">>
      @@ "FINTECH" :> <<"F", "I", "N", "T", "E", "C", "H">>
      @@ "SAAS" :> <<"S", "A", "A", "S">>
      @@ "Blockchain" :> <<"B", "l", "o", "c", "k", "c", "h", "a", "i", "n">>
      @@ "blockchain" :> <<"b", "l", "o", "c", "k", "c", "h", "a", "i", "n">>
      @@ "Pre-Seed" :> <<"P", "r", "e", "-", "S", "e", "e", "d">>
      @@ "Seed" :> <<"S", "e", "e", "d">>
      @@ "Series A" :> <<"S", "e", "r", "i", "e", "s", " ", "A">>
      @@ "Series B" :> <<"S", "e", "r", "i", "e", "s", " ", "B">>
      @@ "Series C" :> <<"S", "e", "r", "i", "e", "s", " ", "C">>
      @@ "Series D" :> <<"S", "e", "r", "i", "e", "s", " ", "D">>
      @@ "AI/ML and SAAS focus" :> <<"A", "I", "/", "M", "L", " ", "a", "n", "d", " ", "S", "A", "A", "S", " ", "f", "o", "c", "u", "s">>
      @@ "Seed, Series A, Series C" :> <<"S", "e", "e", "d", ",", " ", "S", "e", "r", "i", "e", "s", " ", "A", ",", " ", "S", "e", "r", "i", "e", "s", " ", "C">>
      @@ "FinTech, Healthcare" :> <<"F", "i", "n", "T", "e", "c", "h", ",", " ", "H", "e", "a", "l", "t", "h", "c", "a", "r", "e">>
      @@ "Series C, Series A, Seed" :> <<"S", "e", "r", "i", "e", "s", " ", "C", ",", " ", "S", "e", "r", "i", "e", "s", " ", "A", ",", " ", "S", "e", "e", "d">>
      @@ "Enterprise SaaS, Cloud" :> <<"E", "n", "t", "e", "r", "p", "r", "i", "s", "e", " ", "S", "a", "a", "S", ",", " ", "C", "l", "o", "u", "d">>
      @@ "seed" :> <<"s", "e", "e", "d">>
      @@ "mobile e-commerce" :> <<"m", "o", "b", "i", "l", "e", " ", "e", "-", "c", "o", "m", "m", "e", "r", "c", "e">>
      @@ "Series A/B" :> <<"S", "e", "r", "i", "e", "s", " ", "A", "/", "B">>
      @@ "Big Data" :> <<"B", "i", "g", " ", "D", "a", "t", "a">>
      @@ "Series D, Series B" :> <<"S", "e", "r", "i", "e", "s", " ", "D", ",", " ", "S", "e", "r", "i", "e", "s", " ", "B">>
      @@ "Consumer, Developer Tools, Cybersecurity" :> <<"C", "o", "n", "s", "u", "m", "e", "r", ",", " ", "D", "e", "v", "e", "l", "o", "p", "e", "r", " ", "T", "o", "o", "l", "s", ",", " ", "C", "y", "b", "e", "r", "s", "e", "c", "u", "r", "i", "t", "y">>
      @@ "Growth" :> <<"G", "r", "o", "w", "t", "h">>
      @@ "Crypto" :> <<"C", "r", "y", "p", "t", "o">>
      @@ "" :> <<>>
      @@ "Pre-Seed, Seed" :> <<"P", "r", "e", "-", "S", "e", "e", "d", ",", " ", "S", "e", "e", "d">>
      @@ "BIG DATA & ANALYTICS" :> <<"B", "I", "G", " ", "D", "A", "T", "A", " ", "&", " ", "A", "N", "A", "L", "Y", "T", "I", "C", "S">>
      @@ "SeriesA" :> <<"S", "e", "r", "i", "e", "s", "A">>
      @@ "Clou" :> <<"C", "l", "o", "u">>
      @@ "Series" :> <<"S", "e", "r", "i", "e", "s">>
      @@ "Fin Tech" :> <<"F", "i", "n", " ", "T", "e", "c", "h">>
      @@ "fin tech" :> <<"f", "i", "n", " ", "t", "e", "c", "h">>

\* the string with the given characters
Str(cs) == CHOOSE s \in DOMAIN Chars : Chars[s] = cs

\* toLowerCase of one character
LowerChar(c) ==
    CASE
         c = "A" -> "a"
      [] c = "B" -> "b"
      [] c = "C" -> "c"
      [] c = "D" -> "d"
      [] c = "E" -> "e"
      [] c = "F" -> "f"
      [] c = "G" -> "g"
      [] c = "H" -> "h"
      [] c = "I" -> "i"
      [] c = "J" -> "j"
      [] c = "K" -> "k"
      [] c = "L" -> "l"
      [] c = "M" -> "m"
      [] c = "N" -> "n"
      [] c = "O" -> "o"
      [] c = "P" -> "p"
      [] c = "Q" -> "q"
      [] c = "R" -> "r"
      [] c = "S" -> "s"
      [] c = "T" -> "t"
      [] c = "U" -> "u"
      [] c = "V" -> "v"
      [] c = "W" -> "w"
      [] c = "X" -> "x"
      [] c = "Y" -> "y"
      [] c = "Z" -> "z"
      [] OTHER -> c

LowerChars(cs) == [k \in 1..Len(cs) |-> LowerChar(cs[k])]

\* String.prototype.includes on characters: ct occurs in cs at some offset
IncludesChars(cs, ct) ==
    \E o \in 0..(Len(cs) - Len(ct)) : SubSeq(cs, o + 1, o + Len(ct)) = ct

\* the labels toLowerCase is applied to by handleIndustryChange
LabelStrings ==
    {availableIndustries[k] : k \in 1..Len(availableIndustries)} \cup
    {"FinTech", "fintech", "FINTECH", "AI/ML", "ai/ml", "SaaS", "SAAS", "Blockchain", "Fin Tech"}

LowerTable == [s \in LabelStrings |-> Str(LowerChars(Chars[s]))]

\* String.prototype.toLowerCase
ToLowerCase(s) == LowerTable[s]

----------------------------------------------------------------------------
(* Helpers *)

Min(a, b) == IF a <= b THEN a ELSE b

RemoveAt(seq, i) == [j \in 1..(Len(seq) - 1) |-> IF j < i THEN seq[j] ELSE seq[j + 1]]

\* Array.prototype.join(", "): the pieces of the resulting string, in order
JoinComma(seq) ==
    [k \in 1..(IF Len(seq) = 0 THEN 0 ELSE 2 * Len(seq) - 1) |->
        IF k % 2 = 1 THEN seq[(k + 1) \div 2] ELSE ", "]

NoResp == [op |-> "none", endpoint |-> "none", r |-> [kind |-> "none"]]
NoQuery == [sectors |-> <<>>, funding_stage |-> "", page |-> 0, per_page |-> 0]

----------------------------------------------------------------------------
(* Initial state: the useState initial values *)

Init ==
    /\ formData = [email |-> "", startupName |-> "", website |-> "",
                   fundingStage |-> "", industries |-> <<>>]
    /\ isLoading = FALSE
    /\ matches = <<>>
    /\ totalMatches = 0
    /\ showResults = FALSE
    /\ error = ""
    /\ currentPage = 1
    /\ totalPages = 1
    /\ tasks = <<>>
    /\ resp = NoResp
    /\ resultsQuery = NoQuery

----------------------------------------------------------------------------
(* Form handlers *)

\* setFormData(prev => ({ ...prev, [field]: value }))
handleInputChange(field, value) ==
    /\ formData' = [formData EXCEPT ![field] = value]
    /\ UNCHANGED <<isLoading, matches, totalMatches, showResults, error,
                   currentPage, totalPages, tasks, resp, resultsQuery>>

\* seq.find(i => i.toLowerCase() === lowercased): the first such element, or
\* "undefined"
FindIgnoringCase(seq, lowercased) ==
    LET hits == {k \in 1..Len(seq) : ToLowerCase(seq[k]) = lowercased}
    IN  IF hits = {} THEN "undefined"
        ELSE seq[CHOOSE k \in hits : \A j \in hits : k <= j]

\* seq.filter(i => i.toLowerCase() !== lowercased)
FilterOutIgnoringCase(seq, lowercased) ==
    SelectSeq(seq, LAMBDA i : ToLowerCase(i) # lowercased)

\* (mutant) a new selection is stored as the user typed it
ToggleIndustry_RawCasing(prev, industry) ==
    LET lowercasedIndustry == ToLowerCase(industry)
        industryExists ==
            \E k \in 1..Len(prev.industries) :
                ToLowerCase(prev.industries[k]) = lowercasedIndustry
        originalCasingIndustry == FindIgnoringCase(availableIndustries, lowercasedIndustry)
    IN  IF industryExists
        THEN [prev EXCEPT !.industries =
                  FilterOutIgnoringCase(prev.industries, lowercasedIndustry)]
        ELSE IF originalCasingIndustry # "undefined"
             THEN [prev EXCEPT !.industries = Append(prev.industries, industry)]
             ELSE prev

\* (mutant) the "already selected" test compares with ===, not ignoring case
ToggleIndustry_ExactExists(prev, industry) ==
    LET lowercasedIndustry == ToLowerCase(industry)
        industryExists ==
            \E k \in 1..Len(prev.industries) : prev.industries[k] = industry
        originalCasingIndustry == FindIgnoringCase(availableIndustries, lowercasedIndustry)
    IN  IF industryExists
        THEN [prev EXCEPT !.industries =
                  FilterOutIgnoringCase(prev.industries, lowercasedIndustry)]
        ELSE IF originalCasingIndustry # "undefined"
             THEN [prev EXCEPT !.industries = Append(prev.industries, originalCasingIndustry)]
             ELSE prev

\* (mutant) a label with no canonical match is stored as typed
ToggleIndustry_RawFallback(prev, industry) ==
    LET lowercasedIndustry == ToLowerCase(industry)
        industryExists ==
            \E k \in 1..Len(prev.industries) :
                ToLowerCase(prev.industries[k]) = lowercasedIndustry
        originalCasingIndustry == FindIgnoringCase(availableIndustries, lowercasedIndustry)
    IN  IF industryExists
        THEN [prev EXCEPT !.industries =
                  FilterOutIgnoringCase(prev.industries, lowercasedIndustry)]
        ELSE [prev EXCEPT !.industries =
                  Append(prev.industries,
                         IF originalCasingIndustry # "undefined"
                         THEN originalCasingIndustry ELSE industry)]

\* the updater passed to setFormData by handleIndustryChange
ToggleIndustry(prev, industry) ==
    LET lowercasedIndustry == ToLowerCase(industry)
        industryExists ==
            \E k \in 1..Len(prev.industries) :
                ToLowerCase(prev.industries[k]) = lowercasedIndustry
        originalCasingIndustry == FindIgnoringCase(availableIndustries, lowercasedIndustry)
    IN  IF industryExists
        THEN [prev EXCEPT !.industries =
                  FilterOutIgnoringCase(prev.industries, lowercasedIndustry)]
        ELSE IF originalCasingIndustry # "undefined"
             THEN [prev EXCEPT !.industries = Append(prev.industries, originalCasingIndustry)]
             ELSE prev

handleIndustryChange(industry) ==
    /\ formData' = ToggleIndustry(formData, industry)
    /\ UNCHANGED <<isLoading, matches, totalMatches, showResults, error,
                   currentPage, totalPages, tasks, resp, resultsQuery>>

----------------------------------------------------------------------------
(* Requests *)

LeadRequest(f) ==
    [ endpoint |-> FormspreeUrl,
      body |-> [ email |-> f.email,
                 startupName |-> f.startupName,
                 website |-> f.website,
                 fundingStage |-> f.fundingStage,
                 industries |-> JoinComma(f.industries),
                 message |-> << "New startup submission: ", f.startupName, " (",
                                f.fundingStage, " stage) in " >>
                             \o JoinComma(f.industries) ] ]

StartupRequest(f) ==
    [ endpoint |-> StartupUrl,
      body |-> [ company_name |-> f.startupName,
                 founder_name |-> f.email,
                 founder_email |-> f.email,
                 sector |-> JoinComma(f.industries),
                 funding_stage |-> f.fundingStage ] ]

MatchingRequest(f, page) ==
    [ endpoint |-> MatchingUrl,
      body |-> [ sectors |-> f.industries,
                 funding_stage |-> f.fundingStage,
                 page |-> page,
                 per_page |-> perPage ] ]

\* responses the three endpoints may give: an OK status, a non-OK status, or
\* a rejected fetch; an OK matching response carries a MatchingResponse body
PlainResponses ==
    { [kind |-> "ok"], [kind |-> "notok"] } \cup
    { [kind |-> "throw", thrown |-> e] : e \in Thrown }

MatchingResponses ==
    { [kind |-> "ok",
       body |-> [matches |-> m, count |-> c, page |-> p, total_pages |-> t]] :
         m \in MatchLists, c \in Counts, p \in Pages, t \in Pages } \cup
    { [kind |-> "notok"] } \cup
    { [kind |-> "throw", thrown |-> e] : e \in Thrown }

\* the matching responses whose page lies inside 1..total_pages
InRangeResponses ==
    { r \in MatchingResponses :
        r.kind = "ok" => (1 <= r.body.page /\ r.body.page <= r.body.total_pages) }

----------------------------------------------------------------------------
(* Async handlers.  A task is one invocation of handleSubmit or            *)
(* handlePageChange suspended at an await: the values of the render it     *)
(* closed over, the step it is at, and the request it is waiting on.       *)

Render ==
    [ formData |-> formData, matches |-> matches, totalMatches |-> totalMatches,
      currentPage |-> currentPage, totalPages |-> totalPages ]

\* catch (err) { setError(err instanceof Error ? err.message : "An error occurred") }
Catch(err) == IF err.isError THEN err.message ELSE ErrFallback

NewError(message) == [isError |-> TRUE, message |-> message]

\* (mutant) the finally block is missing: the busy flag stays set
Fail_KeepsBusy(i, err) ==
    /\ error' = Catch(err)
    /\ tasks' = RemoveAt(tasks, i)
    /\ UNCHANGED <<formData, isLoading, matches, totalMatches, showResults,
                   currentPage, totalPages, resultsQuery>>

\* catch + finally of either handler: the task ends
Fail(i, err) ==
    /\ error' = Catch(err)
    /\ isLoading' = FALSE
    /\ tasks' = RemoveAt(tasks, i)
    /\ UNCHANGED <<formData, matches, totalMatches, showResults,
                   currentPage, totalPages, resultsQuery>>

\* handleSubmit up to its first await
handleSubmit ==
    /\ Len(tasks) < MaxTasks
    /\ isLoading' = TRUE
    /\ error' = ""
    /\ tasks' = Append(tasks, [ kind |-> "submit", step |-> "lead", closure |-> Render,
                                req |-> LeadRequest(formData) ])
    /\ resp' = NoResp
    /\ UNCHANGED <<formData, matches, totalMatches, showResults,
                   currentPage, totalPages, resultsQuery>>

\* (mutant) the matching query is sent right after the lead-capture response
SubmitAfterLead_SkipsStartup(i, r) ==
    IF r.kind = "throw" THEN Fail(i, r.thrown)
    ELSE IF r.kind # "ok" THEN Fail(i, NewError(ErrLead))
    ELSE /\ tasks' = [tasks EXCEPT ![i].step = "matching",
                                   ![i].req = MatchingRequest(tasks[i].closure.formData, 1)]
         /\ UNCHANGED <<formData, isLoading, matches, totalMatches, showResults,
                        error, currentPage, totalPages, resultsQuery>>

\* (mutant) the lead-capture status is not checked: a non-OK response goes on
SubmitAfterLead_Unchecked(i, r) ==
    IF r.kind = "throw" THEN Fail(i, r.thrown)
    ELSE /\ tasks' = [tasks EXCEPT ![i].step = "startup",
                                   ![i].req = StartupRequest(tasks[i].closure.formData)]
         /\ UNCHANGED <<formData, isLoading, matches, totalMatches, showResults,
                        error, currentPage, totalPages, resultsQuery>>

\* handleSubmit from the lead-capture response to the next await
SubmitAfterLead(i, r) ==
    IF r.kind = "throw" THEN Fail(i, r.thrown)
    ELSE IF r.kind # "ok" THEN Fail(i, NewError(ErrLead))
    ELSE /\ tasks' = [tasks EXCEPT ![i].step = "startup",
                                   ![i].req = StartupRequest(tasks[i].closure.formData)]
         /\ UNCHANGED <<formData, isLoading, matches, totalMatches, showResults,
                        error, currentPage, totalPages, resultsQuery>>

\* (mutant) a non-OK startup response throws the lead-capture message
SubmitAfterStartup_LeadMessage(i, r) ==
    IF r.kind = "throw" THEN Fail(i, r.thrown)
    ELSE IF r.kind # "ok" THEN Fail(i, NewError(ErrLead))
    ELSE /\ tasks' = [tasks EXCEPT ![i].step = "matching",
                                   ![i].req = MatchingRequest(tasks[i].closure.formData, 1)]
         /\ UNCHANGED <<formData, isLoading, matches, totalMatches, showResults,
                        error, currentPage, totalPages, resultsQuery>>

\* handleSubmit from the startup-record response to the next await
SubmitAfterStartup(i, r) ==
    IF r.kind = "throw" THEN Fail(i, r.thrown)
    ELSE IF r.kind # "ok" THEN Fail(i, NewError(ErrStartup))
    ELSE /\ tasks' = [tasks EXCEPT ![i].step = "matching",
                                   ![i].req = MatchingRequest(tasks[i].closure.formData, 1)]
         /\ UNCHANGED <<formData, isLoading, matches, totalMatches, showResults,
                        error, currentPage, totalPages, resultsQuery>>

\* (mutant) the success path forgets setTotalMatches
SubmitAfterMatching_NoCount(i, r) ==
    IF r.kind = "throw" THEN Fail(i, r.thrown)
    ELSE IF r.kind # "ok" THEN Fail(i, NewError(ErrMatching))
    ELSE /\ matches' = r.body.matches
         /\ currentPage' = r.body.page
         /\ totalPages' = r.body.total_pages
         /\ showResults' = TRUE
         /\ isLoading' = FALSE
         /\ tasks' = RemoveAt(tasks, i)
         /\ resultsQuery' = tasks[i].req.body
         /\ UNCHANGED <<formData, error, totalMatches>>

\* handleSubmit from the matching response to its end
SubmitAfterMatching(i, r) ==
    IF r.kind = "throw" THEN Fail(i, r.thrown)
    ELSE IF r.kind # "ok" THEN Fail(i, NewError(ErrMatching))
    ELSE /\ matches' = r.body.matches
         /\ totalMatches' = r.body.count
         /\ currentPage' = r.body.page
         /\ totalPages' = r.body.total_pages
         /\ showResults' = TRUE
         /\ isLoading' = FALSE
         /\ tasks' = RemoveAt(tasks, i)
         /\ resultsQuery' = tasks[i].req.body
         /\ UNCHANGED <<formData, error>>

\* handlePageChange up to its await
handlePageChange(page) ==
    /\ Len(tasks) < MaxTasks
    /\ isLoading' = TRUE
    /\ error' = ""
    /\ tasks' = Append(tasks, [ kind |-> "page", step |-> "matching", closure |-> Render,
                                req |-> MatchingRequest(formData, page) ])
    /\ resp' = NoResp
    /\ UNCHANGED <<formData, matches, totalMatches, showResults,
                   currentPage, totalPages, resultsQuery>>

\* (mutant) the success path also sets the total count, as handleSubmit does
PageAfterMatching_SetsCount(i, r) ==
    IF r.kind = "throw" THEN Fail(i, r.thrown)
    ELSE IF r.kind # "ok" THEN Fail(i, NewError(ErrPage))
    ELSE /\ matches' = r.body.matches
         /\ totalMatches' = r.body.count
         /\ currentPage' = r.body.page
         /\ totalPages' = r.body.total_pages
         /\ isLoading' = FALSE
         /\ tasks' = RemoveAt(tasks, i)
         /\ UNCHANGED <<formData, showResults, error, resultsQuery>>

\* (mutant) the page is moved to the requested one before the response is
\* checked, so a failure leaves the cursor on a page that was never loaded
PageAfterMatching_Optimistic(i, r) ==
    IF r.kind # "ok"
    THEN /\ error' = Catch(IF r.kind = "throw" THEN r.thrown ELSE NewError(ErrPage))
         /\ currentPage' = tasks[i].req.body.page
         /\ isLoading' = FALSE
         /\ tasks' = RemoveAt(tasks, i)
         /\ UNCHANGED <<formData, matches, totalMatches, showResults,
                        totalPages, resultsQuery>>
    ELSE /\ matches' = r.body.matches
         /\ currentPage' = r.body.page
         /\ totalPages' = r.body.total_pages
         /\ isLoading' = FALSE
         /\ tasks' = RemoveAt(tasks, i)
         /\ UNCHANGED <<formData, totalMatches, showResults, error, resultsQuery>>

\* (mutant) the success path also calls setShowResults(true), as handleSubmit does
PageAfterMatching_ShowsResults(i, r) ==
    IF r.kind = "throw" THEN Fail(i, r.thrown)
    ELSE IF r.kind # "ok" THEN Fail(i, NewError(ErrPage))
    ELSE /\ matches' = r.body.matches
         /\ currentPage' = r.body.page
         /\ totalPages' = r.body.total_pages
         /\ showResults' = TRUE
         /\ isLoading' = FALSE
         /\ tasks' = RemoveAt(tasks, i)
         /\ UNCHANGED <<formData, totalMatches, error, resultsQuery>>

\* handlePageChange from the matching response to its end
PageAfterMatching(i, r) ==
    IF r.kind = "throw" THEN Fail(i, r.thrown)
    ELSE IF r.kind # "ok" THEN Fail(i, NewError(ErrPage))
    ELSE /\ matches' = r.body.matches
         /\ currentPage' = r.body.page
         /\ totalPages' = r.body.total_pages
         /\ isLoading' = FALSE
         /\ tasks' = RemoveAt(tasks, i)
         /\ UNCHANGED <<formData, totalMatches, showResults, error, resultsQuery>>

Delivered(i, r) == [op |-> tasks[i].kind, endpoint |-> tasks[i].req.endpoint, r |-> r]

----------------------------------------------------------------------------
(* What the two views render *)

\* <Button type="submit" disabled={...}>
\* (mutant) the submit button is not disabled while busy
SubmitDisabled_IgnoresLoading == Len(formData.industries) = 0

SubmitDisabled == isLoading \/ Len(formData.industries) = 0

\* (mutant) the inputs lack the `required` attribute
RequiredFilled_NotRequired == TRUE

\* the `required` attribute of the email and startup-name inputs
RequiredFilled == formData.email # "" /\ formData.startupName # ""

\* {totalPages > 1 && ( ...pagination controls... )}
PaginationShown == showResults /\ totalPages > 1

PreviousDisabled == currentPage = 1 \/ isLoading
NextDisabled == currentPage = totalPages \/ isLoading
\* (mutant) the numbered buttons lack the disabled attribute
NumberDisabled_Never == FALSE

NumberDisabled == isLoading

\* (mutant) the window at the end of the range starts one page too early
PageNum_EarlyLastWindow(i) ==
    IF totalPages <= 5 THEN i + 1
    ELSE IF currentPage <= 3 THEN i + 1
    ELSE IF currentPage >= totalPages - 2 THEN totalPages - 5 + i
    ELSE currentPage - 2 + i

\* the page number of the i-th numbered button, i in 0..Min(5, totalPages)-1
PageNum(i) ==
    IF totalPages <= 5 THEN i + 1
    ELSE IF currentPage <= 3 THEN i + 1
    ELSE IF currentPage >= totalPages - 2 THEN totalPages - 4 + i
    ELSE currentPage - 2 + i

ButtonIndexes == 0..(Min(5, totalPages) - 1)

\* Array.from({ length: Math.min(5, totalPages) }, (_, i) => ... pageNum ...)
PageButtons == [k \in 1..Min(5, totalPages) |-> PageNum(k - 1)]

\* the numbered buttons on screen: none unless the pagination block is rendered
ShownPageButtons == IF PaginationShown THEN PageButtons ELSE <<>>

----------------------------------------------------------------------------
(* Investor cards *)

\* for (const stage of knownStages) { if (stageString.includes(stage)) stages.push(stage) }
RECURSIVE getStagesLoop(_, _, _)
getStagesLoop(stageString, k, stages) ==
    IF k > Len(knownStages) THEN stages
    ELSE getStagesLoop(stageString, k + 1,
             IF IncludesChars(Chars[stageString], Chars[knownStages[k]])
             THEN Append(stages, knownStages[k])
             ELSE stages)

\* (mutant) the loop is left at the first known stage found
getStages_FirstMatchOnly(stageString) ==
    IF stageString = "undefined" \/ stageString = "" THEN <<>>
    ELSE LET stages == getStagesLoop(stageString, 1, <<>>)
         IN  IF stages = <<>> THEN <<>> ELSE <<stages[1]>>

\* if (!stageString) return []: undefined and "" are falsy
getStages(stageString) ==
    IF stageString = "undefined" \/ stageString = "" THEN <<>>
    ELSE getStagesLoop(stageString, 1, <<>>)

\* (mutant) the sector string is not lower-cased before the search
cardIndustries_InputNotLowered(vc) ==
    IF vc.fund_focus_sectors # "undefined" /\ vc.fund_focus_sectors # ""
    THEN SelectSeq(availableIndustries,
                   LAMBDA i : IncludesChars(Chars[vc.fund_focus_sectors],
                                            LowerChars(Chars[i])))
    ELSE <<>>

\* const industries = vc.fund_focus_sectors ? availableIndustries.filter(...) : []
cardIndustries(vc) ==
    IF vc.fund_focus_sectors # "undefined" /\ vc.fund_focus_sectors # ""
    THEN SelectSeq(availableIndustries,
                   LAMBDA i : IncludesChars(LowerChars(Chars[vc.fund_focus_sectors]),
                                            LowerChars(Chars[i])))
    ELSE <<>>

\* matches.map((vc) => ...): the tags of each card of the results view
Cards ==
    IF showResults
    THEN [k \in 1..Len(matches) |->
            [ id |-> Investors[matches[k]].id,
              industries |-> cardIndustries(Investors[matches[k]]),
              fundingStages |-> getStages(Investors[matches[k]].fund_stage) ]]
    ELSE <<>>

----------------------------------------------------------------------------
(* Events *)

InputChange ==
    /\ ~showResults
    /\ \E field \in InputFields : \E value \in FieldValues[field] :
          handleInputChange(field, value)

IndustryChangeFrom(labels) ==
    /\ ~showResults
    /\ \E industry \in labels : handleIndustryChange(industry)

IndustryChange == IndustryChangeFrom(ToggleLabels)
IndustryChangeAny == IndustryChangeFrom(ToggleInputs)

ClickSubmit ==
    /\ ~showResults
    /\ ~SubmitDisabled
    /\ RequiredFilled
    /\ handleSubmit

ClickBack ==
    /\ showResults
    /\ showResults' = FALSE
    /\ currentPage' = 1
    /\ totalPages' = 1
    /\ UNCHANGED <<formData, isLoading, matches, totalMatches, error, tasks,
                   resp, resultsQuery>>

ClickPrevious ==
    /\ PaginationShown
    /\ ~PreviousDisabled
    /\ handlePageChange(currentPage - 1)

ClickNext ==
    /\ PaginationShown
    /\ ~NextDisabled
    /\ handlePageChange(currentPage + 1)

ClickPageNumber ==
    /\ PaginationShown
    /\ ~NumberDisabled
    /\ \E i \in ButtonIndexes : handlePageChange(PageNum(i))

LeadResponse ==
    \E i \in 1..Len(tasks) : \E r \in PlainResponses :
        /\ tasks[i].kind = "submit" /\ tasks[i].step = "lead"
        /\ resp' = Delivered(i, r)
        /\ SubmitAfterLead(i, r)

StartupResponse ==
    \E i \in 1..Len(tasks) : \E r \in PlainResponses :
        /\ tasks[i].kind = "submit" /\ tasks[i].step = "startup"
        /\ resp' = Delivered(i, r)
        /\ SubmitAfterStartup(i, r)

SubmitMatchingResponseFrom(responses) ==
    \E i \in 1..Len(tasks) : \E r \in responses :
        /\ tasks[i].kind = "submit" /\ tasks[i].step = "matching"
        /\ resp' = Delivered(i, r)
        /\ SubmitAfterMatching(i, r)

PageMatchingResponseFrom(responses) ==
    \E i \in 1..Len(tasks) : \E r \in responses :
        /\ tasks[i].kind = "page" /\ tasks[i].step = "matching"
        /\ resp' = Delivered(i, r)
        /\ PageAfterMatching(i, r)

SubmitMatchingResponse == SubmitMatchingResponseFrom(MatchingResponses)
PageMatchingResponse == PageMatchingResponseFrom(MatchingResponses)

\* the same, for a matching service that only answers with a page inside
\* 1..total_pages
SubmitMatchingResponseInRange == SubmitMatchingResponseFrom(InRangeResponses)
PageMatchingResponseInRange == PageMatchingResponseFrom(InRangeResponses)

Next ==
    \/ InputChange
    \/ IndustryChange
    \/ ClickSubmit
    \/ ClickBack
    \/ ClickPrevious
    \/ ClickNext
    \/ ClickPageNumber
    \/ LeadResponse
    \/ StartupResponse
    \/ SubmitMatchingResponse
    \/ PageMatchingResponse

Spec == Init /\ [][Next]_vars

NextInRange ==
    \/ InputChange
    \/ IndustryChange
    \/ ClickSubmit
    \/ ClickBack
    \/ ClickPrevious
    \/ ClickNext
    \/ ClickPageNumber
    \/ LeadResponse
    \/ StartupResponse
    \/ SubmitMatchingResponseInRange
    \/ PageMatchingResponseInRange

\* the behaviours in which every matching response has 1 <= page <= total_pages
SpecInRange == Init /\ [][NextInRange]_vars

\* A submission whose lead-capture and startup-record calls have succeeded and
\* whose matching query is in flight.
SubmittedForm ==
    [email |-> "john@gmail.com", startupName |-> "Acme", website |-> "",
     fundingStage |-> "seed", industries |-> <<"FinTech">>]

InitAwaitingMatches ==
    /\ formData = SubmittedForm
    /\ isLoading = TRUE
    /\ matches = <<>>
    /\ totalMatches = 0
    /\ showResults = FALSE
    /\ error = ""
    /\ currentPage = 1
    /\ totalPages = 1
    /\ tasks = << [ kind |-> "submit", step |-> "matching",
                    closure |-> [ formData |-> SubmittedForm, matches |-> <<>>,
                                  totalMatches |-> 0, currentPage |-> 1,
                                  totalPages |-> 1 ],
                    req |-> MatchingRequest(SubmittedForm, 1) ] >>
    /\ resp = [op |-> "submit", endpoint |-> StartupUrl, r |-> [kind |-> "ok"]]
    /\ resultsQuery = NoQuery

\* answers of a matching service with up to MaxTotalPages pages
WindowResponses ==
    { [kind |-> "ok",
       body |-> [matches |-> <<1>>, count |-> 40, page |-> p, total_pages |-> t]] :
         p \in 1..MaxTotalPages, t \in 1..MaxTotalPages } \cup
    { [kind |-> "notok"] }

SubmitMatchingResponseWindow == SubmitMatchingResponseFrom(WindowResponses)
PageMatchingResponseWindow == PageMatchingResponseFrom(WindowResponses)

\* paging through the results of that submission
NextWindow ==
    \/ SubmitMatchingResponseWindow
    \/ ClickPrevious
    \/ ClickNext
    \/ ClickPageNumber
    \/ PageMatchingResponseWindow
    \/ ClickBack

SpecWindow == InitAwaitingMatches /\ [][NextWindow]_vars

\* answers of a matching service that returns up to MaxCards of the investors
CardLists ==
    UNION { [1..n -> 1..Len(Investors)] : n \in 1..MaxCards }

CardResponses ==
    { [kind |-> "ok",
       body |-> [matches |-> m, count |-> Len(m), page |-> 1, total_pages |-> 1]] :
         m \in CardLists } \cup
    { [kind |-> "notok"] }

SubmitMatchingResponseCards == SubmitMatchingResponseFrom(CardResponses)

\* showing the cards of that submission
NextCards ==
    \/ SubmitMatchingResponseCards
    \/ ClickBack

SpecCards == InitAwaitingMatches /\ [][NextCards]_vars

\* the form has been filled in and is not edited any more
InitFilled ==
    /\ formData = SubmittedForm
    /\ isLoading = FALSE
    /\ matches = <<>>
    /\ totalMatches = 0
    /\ showResults = FALSE
    /\ error = ""
    /\ currentPage = 1
    /\ totalPages = 1
    /\ tasks = <<>>
    /\ resp = NoResp
    /\ resultsQuery = NoQuery

NextLive ==
    \/ ClickSubmit
    \/ ClickBack
    \/ ClickPrevious
    \/ ClickNext
    \/ ClickPageNumber
    \/ LeadResponse
    \/ StartupResponse
    \/ SubmitMatchingResponse
    \/ PageMatchingResponse

\* every request that is issued is answered (with an OK status, a non-OK
\* status or a rejected fetch): each await is resumed
SpecLive ==
    /\ InitFilled /\ [][NextLive]_vars
    /\ WF_vars(LeadResponse)
    /\ WF_vars(StartupResponse)
    /\ WF_vars(SubmitMatchingResponse)
    /\ WF_vars(PageMatchingResponse)

\* the behaviours that only edit the form, with the wider choice of labels
NextToggle ==
    \/ InputChange
    \/ IndustryChangeAny

SpecToggle == Init /\ [][NextToggle]_vars

----------------------------------------------------------------------------
(* Properties *)

\* a response was delivered to a handler of kind op in this step
ReceivedBy(op) == resp' # resp /\ resp'.op = op

TasksOfKind(ts, kind) == {i \in 1..Len(ts) : ts[i].kind = kind}

\* a handler was invoked in this step; Started is its task
Invoked == Len(tasks') = Len(tasks) + 1
Started == tasks'[Len(tasks')]

\* C1: when the matching response of a submission arrives with success (the
\* two earlier calls having succeeded), the view is "results" and matches,
\* totalMatches, currentPage and totalPages are the matches, count, page and
\* total_pages of that response body, whatever they were before.
C1_SubmitSuccessSetsResults ==
    [][ (ReceivedBy("submit") /\ resp'.endpoint = MatchingUrl /\ resp'.r.kind = "ok")
        => /\ showResults'
           /\ matches' = resp'.r.body.matches
           /\ totalMatches' = resp'.r.body.count
           /\ currentPage' = resp'.r.body.page
           /\ totalPages' = resp'.r.body.total_pages ]_vars

C1_Witness ==
    /\ resp.op = "submit" /\ resp.endpoint = MatchingUrl /\ resp.r.kind = "ok"
    /\ tasks = <<>> /\ showResults /\ ~isLoading
    /\ matches = <<2, 3>> /\ totalMatches = 40 /\ currentPage = 2 /\ totalPages = 2

\* C2: a failed step of a submission ends the pipeline: the step that handles
\* a failed lead-capture or startup-record response leaves no request of that
\* submission outstanding, and a startup-record request (a matching query of a
\* submission) is outstanding only after the lead-capture (startup-record)
\* response arrived with success.
C2_FailedStepHaltsPipeline ==
    [][ /\ (ReceivedBy("submit") /\ resp'.r.kind # "ok")
           => TasksOfKind(tasks', "submit") = {}
        /\ \A i \in TasksOfKind(tasks', "submit") :
             /\ tasks'[i].req.endpoint = StartupUrl
                  => (resp'.endpoint = FormspreeUrl /\ resp'.r.kind = "ok")
             /\ tasks'[i].req.endpoint = MatchingUrl
                  => (resp'.endpoint = StartupUrl /\ resp'.r.kind = "ok") ]_vars

C2_Witness ==
    /\ resp.op = "submit" /\ resp.endpoint = StartupUrl /\ resp.r.kind = "notok"
    /\ tasks = <<>> /\ error = ErrStartup /\ ~isLoading /\ ~showResults

\* C3 (as amended): a non-OK response stores the message of the call that
\* failed: lead capture "Failed to submit form data", startup record "Failed
\* to submit startup information", matching query "Failed to find matching
\* investors"; these three are pairwise distinct, and a failed page change
\* stores the same message as a failed matching query of a submission.
C3_ErrorPerCall ==
    [][ /\ Cardinality({ErrLead, ErrStartup, ErrMatching}) = 3
        /\ (resp' # resp /\ resp'.r.kind = "notok")
           => error' = (CASE resp'.endpoint = FormspreeUrl -> ErrLead
                          [] resp'.endpoint = StartupUrl -> ErrStartup
                          [] resp'.endpoint = MatchingUrl -> ErrMatching) ]_vars

C3_Witness ==
    /\ resp.op = "page" /\ resp.r.kind = "notok"
    /\ tasks = <<>> /\ error = ErrMatching /\ showResults

\* C3 (as claimed): the error stored by a failed page change differs from the
\* error stored by each of the three failures of a submission.
C3_FourDistinguishable ==
    [][ (ReceivedBy("page") /\ resp'.r.kind = "notok")
        => error' \notin {ErrLead, ErrStartup, ErrMatching} ]_vars

\* C4 (as claimed): a page change for the page currently shown sends no
\* matching query and changes no state, so no invocation of handlePageChange
\* ever starts a request for page = currentPage.
C4_SamePageIsNoOp ==
    [][ (Invoked /\ Started.kind = "page")
        => Started.req.body.page # currentPage ]_vars

\* C5 (as claimed): no matching query with page < 1 or page > totalPages is
\* ever sent by the Previous, Next or numbered page controls.
C5_PageInRange ==
    [][ (Invoked /\ Started.kind = "page")
        => (1 <= Started.req.body.page /\ Started.req.body.page <= totalPages) ]_vars

\* C6 (as claimed): whenever totalPages >= 1, 1 <= currentPage <= totalPages.
C6_CursorInvariant ==
    totalPages >= 1 => (1 <= currentPage /\ currentPage <= totalPages)

\* C7: at most one submission and at most one page change are in flight, and
\* while the busy flag is set no handler is invoked (nothing is queued: a task
\* exists only from its invocation to its end).
C7_OneInFlight ==
    [][ /\ isLoading => ~Invoked
        /\ Cardinality(TasksOfKind(tasks', "submit")) <= 1
        /\ Cardinality(TasksOfKind(tasks', "page")) <= 1 ]_vars

C7_Witness ==
    /\ isLoading /\ PaginationShown
    /\ Len(tasks) = 1 /\ tasks[1].kind = "page"

\* C8 (as amended): handling a failed page change leaves matches, currentPage,
\* totalPages and totalMatches as they were just before (only error and the
\* busy flag change); matches and totalMatches are those of the render that
\* issued the request, and so are currentPage and totalPages unless the user
\* went back to the form meanwhile, in which case both are 1.
C8_FailedPageChangeKeepsState ==
    [][ (ReceivedBy("page") /\ resp'.r.kind # "ok" /\ Len(tasks) = 1)
        => /\ UNCHANGED <<matches, totalMatches, currentPage, totalPages,
                          formData, showResults, resultsQuery>>
           /\ ~isLoading'
           /\ matches' = tasks[1].closure.matches
           /\ totalMatches' = tasks[1].closure.totalMatches
           /\ \/ /\ currentPage' = tasks[1].closure.currentPage
                 /\ totalPages' = tasks[1].closure.totalPages
              \/ /\ ~showResults'
                 /\ currentPage' = 1
                 /\ totalPages' = 1 ]_vars

C8_Witness ==
    /\ resp.op = "page" /\ resp.r.kind = "notok"
    /\ tasks = <<>> /\ ~isLoading /\ error = ErrPage
    /\ showResults /\ currentPage = 1 /\ totalPages = 2 /\ matches = <<2, 3>>

\* C8 (as claimed): after a failed page change matches, currentPage,
\* totalPages and totalMatches are what they were when the request was issued.
C8_AsBeforeRequest ==
    [][ (ReceivedBy("page") /\ resp'.r.kind # "ok" /\ Len(tasks) = 1)
        => /\ matches' = tasks[1].closure.matches
           /\ totalMatches' = tasks[1].closure.totalMatches
           /\ currentPage' = tasks[1].closure.currentPage
           /\ totalPages' = tasks[1].closure.totalPages ]_vars

\* C9: a successful page change sets matches to exactly the matches of the
\* response and currentPage to its page, and leaves totalMatches alone;
\* totalMatches changes only in the step that handles the successful matching
\* response of a submission.
C9_PageSuccessReplaces ==
    [][ /\ (ReceivedBy("page") /\ resp'.r.kind = "ok")
           => /\ matches' = resp'.r.body.matches
              /\ currentPage' = resp'.r.body.page
              /\ totalMatches' = totalMatches
        /\ totalMatches' # totalMatches
           => (ReceivedBy("submit") /\ resp'.endpoint = MatchingUrl
               /\ resp'.r.kind = "ok") ]_vars

C9_Witness ==
    /\ resp.op = "page" /\ resp.r.kind = "ok" /\ tasks = <<>>
    /\ matches = <<1>> /\ resp.r.body.matches = <<1>>
    /\ currentPage = 2 /\ totalMatches = 40 /\ resp.r.body.count = 3

\* C10 (as claimed): every matching query of a page change carries the
\* sectors and funding stage of the matching query of the submission whose
\* results are being paged.
C10_FiltersFrozen ==
    \A i \in TasksOfKind(tasks, "page") :
        /\ tasks[i].req.body.sectors = resultsQuery.sectors
        /\ tasks[i].req.body.funding_stage = resultsQuery.funding_stage


\* C11: the view goes from "form" to "results" only in the step that handles
\* the successful matching response of a submission: no failed step of a
\* submission, no page-change response and no user event sets it to "results".
C11_ResultsOnlyOnSubmitSuccess ==
    [][ (~showResults /\ showResults')
        => (ReceivedBy("submit") /\ resp'.endpoint = MatchingUrl
            /\ resp'.r.kind = "ok") ]_vars

\* a page-change response was handled on the form view (the user went back
\* while it was in flight) and the view stayed "form"
C11_Witness ==
    /\ ~showResults /\ tasks = <<>>
    /\ resp.op = "page" /\ resp.r.kind = "ok"
    /\ matches = resp.r.body.matches /\ currentPage = resp.r.body.page


\* two strings are equal ignoring case
SameIgnoringCase(a, b) == LowerChars(Chars[a]) = LowerChars(Chars[b])

\* the label matches one of the canonical industries ignoring case
MatchesCanonical(l) ==
    \E c \in 1..Len(availableIndustries) : SameIgnoringCase(availableIndustries[c], l)

Range(seq) == {seq[k] : k \in 1..Len(seq)}

\* C12: after any sequence of industry toggles from the empty selection, no
\* two selected entries are equal ignoring case and every entry is one of the
\* 12 canonical labels, spelled as in availableIndustries.
C12_SelectionInvariant ==
    LET sel == formData.industries
    IN  /\ Len(availableIndustries) = 12
        /\ \A j, k \in 1..Len(sel) : j # k => ~SameIgnoringCase(sel[j], sel[k])
        /\ \A k \in 1..Len(sel) : sel[k] \in Range(availableIndustries)

C12_Witness == formData.industries = <<"SaaS", "FinTech", "AI/ML">>

\* C13: for every reachable selection and any two labels that are equal
\* ignoring case and match a canonical industry, toggling the first and then
\* the second gives back a selection with the original contents (the same
\* entries, each once; a removed entry returns at the end) and leaves the
\* other form fields alone.
C13_ToggleTwiceRestores ==
    \A a, b \in ToggleInputs :
        (SameIgnoringCase(a, b) /\ MatchesCanonical(a))
        => LET twice == ToggleIndustry(ToggleIndustry(formData, a), b)
           IN  /\ Range(twice.industries) = Range(formData.industries)
               /\ Len(twice.industries) = Len(formData.industries)
               /\ [twice EXCEPT !.industries = <<>>]
                    = [formData EXCEPT !.industries = <<>>]

C13_Witness ==
    /\ formData.industries = <<"FinTech", "AI/ML">>
    /\ ToggleIndustry(ToggleIndustry(formData, "fintech"), "FinTech").industries
         = <<"AI/ML", "FinTech">>

\* C14: toggling a label that matches no canonical industry, even ignoring
\* case, leaves the selection and every other form field as they are, and no
\* error is stored.
C14_UnknownLabelIsNoOp ==
    /\ \A l \in ToggleInputs :
          ~MatchesCanonical(l) => ToggleIndustry(formData, l) = formData
    /\ error = ""

C14_Witness ==
    /\ formData.industries = <<"FinTech", "AI/ML">>
    /\ formData.email = "john@gmail.com"
    /\ ~MatchesCanonical("Blockchain")
    /\ ToggleIndustry(formData, "Blockchain") = formData


\* the window of page numbers first..last
PageRange(first, last) == [k \in 1..(last - first + 1) |-> first + k - 1]

\* the window the page buttons are said to show for the current cursor
ExpectedWindow ==
    IF totalPages <= 5 THEN PageRange(1, totalPages)
    ELSE IF currentPage <= 3 THEN PageRange(1, 5)
    ELSE IF currentPage >= totalPages - 2 THEN PageRange(totalPages - 4, totalPages)
    ELSE PageRange(currentPage - 2, currentPage + 2)

WindowOnScreen ==
    /\ ShownPageButtons = ExpectedWindow
    /\ Len(ShownPageButtons) <= 5
    /\ \A k \in 1..Len(ShownPageButtons) : ShownPageButtons[k] \in 1..totalPages
    /\ \E k \in 1..Len(ShownPageButtons) : ShownPageButtons[k] = currentPage

\* C15 (as stated): on the results view, for every totalPages >= 1 and every
\* currentPage in 1..totalPages, the page buttons shown are the window
\* 1..totalPages (totalPages <= 5), 1..5 (currentPage <= 3), the last five
\* pages (currentPage >= totalPages - 2) or currentPage-2..currentPage+2; so
\* at most five are shown, all in 1..totalPages, the current page among them.
C15_WindowFromOnePage ==
    (showResults /\ totalPages >= 1 /\ currentPage \in 1..totalPages) => WindowOnScreen

\* C15 (amended): the same for every totalPages >= 2; with a single page no
\* page button is shown at all.
C15_WindowFromTwoPages ==
    /\ (showResults /\ totalPages >= 2 /\ currentPage \in 1..totalPages) => WindowOnScreen
    /\ (showResults /\ totalPages = 1) => ShownPageButtons = <<>>

C15_Witness ==
    /\ showResults /\ totalPages = 10 /\ currentPage = 5
    /\ resp.op = "page" /\ resp.r.kind = "ok"
    /\ ShownPageButtons = <<3, 4, 5, 6, 7>>


\* the label occurs in the text at some offset, character for character
OccursIn(label, text) ==
    \E o \in 0..(Len(text) - Len(label)) :
        \A j \in 1..Len(label) : text[o + j] = label[j]

\* the label occurs in the text at some offset, ignoring case
OccursIgnoringCaseIn(label, text) ==
    \E o \in 0..(Len(text) - Len(label)) :
        \A j \in 1..Len(label) : LowerChar(text[o + j]) = LowerChar(label[j])

\* the entries of tags are entries of reference, in the order of reference,
\* each at most once
InReferenceOrder(tags, reference) ==
    \E pos \in [1..Len(tags) -> 1..Len(reference)] :
        /\ \A k \in 1..Len(tags) : tags[k] = reference[pos[k]]
        /\ \A j, k \in 1..Len(tags) : j < k => pos[j] < pos[k]

StageReference == << "Pre-Seed", "Seed", "Series A", "Series B", "Series C", "Series D" >>

\* C17: on every card shown, the stage tags are exactly the known stage
\* labels that occur as a substring of the investor's fund_stage, in the
\* fixed order Pre-Seed, Seed, Series A, Series B, Series C, Series D whatever
\* their order in the input, each once; an absent fund_stage gives no tag.
C17_StageTags ==
    \A k \in 1..Len(Cards) :
        LET input == Investors[matches[k]].fund_stage
            tags == Cards[k].fundingStages
        IN  IF input = "undefined" THEN tags = <<>>
            ELSE /\ \A c \in 1..Len(StageReference) :
                      (StageReference[c] \in Range(tags))
                      <=> OccursIn(Chars[StageReference[c]], Chars[input])
                 /\ InReferenceOrder(tags, StageReference)

C17_Witness ==
    /\ showResults /\ matches = <<2, 4>>
    /\ Investors[2].fund_stage = "Series C, Series A, Seed"
    /\ Cards[1].fundingStages = <<"Seed", "Series A", "Series C">>
    /\ Cards[2].fundingStages = <<"Pre-Seed", "Seed">>

\* C18: on every card shown, the industry tags are exactly the canonical
\* industries whose label occurs in the investor's fund_focus_sectors as a
\* substring ignoring case, in the order and casing of the canonical list; an
\* absent fund_focus_sectors gives no tag.
C18_IndustryTags ==
    \A k \in 1..Len(Cards) :
        LET input == Investors[matches[k]].fund_focus_sectors
            tags == Cards[k].industries
        IN  IF input = "undefined" THEN tags = <<>>
            ELSE /\ \A c \in 1..Len(availableIndustries) :
                      (availableIndustries[c] \in Range(tags))
                      <=> OccursIgnoringCaseIn(Chars[availableIndustries[c]], Chars[input])
                 /\ InReferenceOrder(tags, availableIndustries)

C18_Witness ==
    /\ showResults /\ matches = <<1, 3>>
    /\ Investors[1].fund_focus_sectors = "AI/ML and SAAS focus"
    /\ Cards[1].industries = <<"AI/ML", "SaaS">>
    /\ Cards[2].industries = <<>>


\* the form values a submission was started with
StartedWith(i) == tasks[i].closure.formData

NoSubmissionWithoutRequiredFields ==
    \A i \in 1..Len(tasks) :
        tasks[i].kind = "submit"
        => /\ StartedWith(i).email # ""
           /\ StartedWith(i).startupName # ""
           /\ Len(StartedWith(i).industries) > 0
           /\ tasks[i].step = "lead" => tasks[i].req = LeadRequest(StartedWith(i))

\* C16 (as stated): no submission pipeline is ever running that was started
\* with an empty email, an empty startup name or no industry selected, and
\* this is because the submit button is disabled whenever one of the three is
\* missing.
C16_EnforcedByDisabledButton ==
    /\ NoSubmissionWithoutRequiredFields
    /\ (formData.email = "" \/ formData.startupName = ""
          \/ Len(formData.industries) = 0) => SubmitDisabled

\* C16 (amended): no submission pipeline is ever running that was started
\* with an empty email, an empty startup name or no industry selected; the
\* submit button is disabled whenever no industry is selected (an empty
\* email or startup name does not disable it).
C16_EnforcedBeforeSubmit ==
    /\ NoSubmissionWithoutRequiredFields
    /\ Len(formData.industries) = 0 => SubmitDisabled

C16_Witness ==
    /\ Len(tasks) = 1 /\ tasks[1].kind = "submit" /\ tasks[1].step = "lead"
    /\ tasks[1].req = LeadRequest(formData)
    /\ formData.email = "john@gmail.com" /\ formData.startupName = "Acme"
    /\ formData.industries = <<"FinTech">>

\* C19: a submission's requests go out one after the other: while it waits
\* on the lead-capture request nothing has been answered yet; it waits on the
\* startup-record request only when the last answer was a successful
\* lead-capture response; it waits on the matching query, which asks for
\* page 1 with 21 per page, only when the last answer was a successful
\* startup-record response; it never waits on two requests.
C19_StrictlySequential ==
    \A i \in 1..Len(tasks) :
        tasks[i].kind = "submit"
        => /\ Cardinality(TasksOfKind(tasks, "submit")) = 1
           /\ tasks[i].step \in {"lead", "startup", "matching"}
           /\ tasks[i].step = "lead"
                => (tasks[i].req.endpoint = FormspreeUrl /\ resp = NoResp)
           /\ tasks[i].step = "startup"
                => /\ tasks[i].req.endpoint = StartupUrl
                   /\ resp = [op |-> "submit", endpoint |-> FormspreeUrl,
                               r |-> [kind |-> "ok"]]
           /\ tasks[i].step = "matching"
                => /\ tasks[i].req.endpoint = MatchingUrl
                   /\ tasks[i].req.body.page = 1
                   /\ tasks[i].req.body.per_page = 21
                   /\ resp = [op |-> "submit", endpoint |-> StartupUrl,
                               r |-> [kind |-> "ok"]]

C19_Witness ==
    /\ Len(tasks) = 1 /\ tasks[1].kind = "submit" /\ tasks[1].step = "matching"
    /\ tasks[1].req = MatchingRequest(tasks[1].closure.formData, 1)
    /\ tasks[1].closure.currentPage = 2
    /\ resp.endpoint = StartupUrl /\ resp.r.kind = "ok"

\* C20: pressing Back on the results view shows the form, sets the current
\* page to 1 and leaves the match list and the total count as they are; and
\* while the form is shown the match list changes only when a submission
\* succeeds.
C20_BackKeepsMatches ==
    [][ /\ (showResults /\ ~showResults')
            => (currentPage' = 1 /\ matches' = matches
                /\ totalMatches' = totalMatches)
        /\ (~showResults /\ matches' # matches)
            => (ReceivedBy("submit") /\ resp'.endpoint = MatchingUrl
                /\ resp'.r.kind = "ok") ]_vars


\* C21: when every request is answered, every submission and every page
\* change that was started ends with the busy flag cleared, whether it
\* succeeds or fails; and the step that handles a failed response (non-OK or
\* rejected) ends the operation without issuing any request again.
C21_BusyFlagReleased ==
    /\ (tasks # <<>>) ~> (tasks = <<>> /\ ~isLoading)
    /\ isLoading ~> ~isLoading
    /\ [][ (resp' # resp /\ resp'.r.kind \in {"notok", "throw"})
            => (Len(tasks') = Len(tasks) - 1 /\ ~isLoading') ]_vars

C21_Witness ==
    /\ resp.op = "submit" /\ resp.endpoint = MatchingUrl /\ resp.r.kind = "throw"
    /\ tasks = <<>> /\ ~isLoading /\ error = "Failed to fetch"


\* C22: in every reachable state at most one request in total is
\* outstanding (a submission and a page change never wait together, also
\* after the user went back to the form during a page change), and the busy
\* flag is set exactly when one is outstanding.
C22_OneRequestInTotal ==
    /\ Len(tasks) <= 1
    /\ isLoading <=> (Len(tasks) = 1)
    /\ ~(TasksOfKind(tasks, "submit") # {} /\ TasksOfKind(tasks, "page") # {})

C22_Witness ==
    /\ ~showResults /\ isLoading
    /\ Len(tasks) = 1 /\ tasks[1].kind = "page"
    /\ RequiredFilled /\ Len(formData.industries) > 0 /\ SubmitDisabled

\* C23 (as claimed): whenever the form is shown the current page is 1.
C23_FormViewOnPageOne == ~showResults => currentPage = 1

====
